---- MODULE Spec2Model ----
(***************************************************************************)
(* The household PV + storage calculator pv_storage_optimizer.py as a      *)
(* state machine: one run of the script is sizing, the 24 dispatch hours   *)
(* of simulate_energy_flow, economic_analysis and the backup estimate; a   *)
(* widget change starts the next run.  All quantities are the program's    *)
(* binary64 floats, computed operation by operation with IEEE rounding.    *)
(***************************************************************************)
EXTENDS Integers, Sequences, FiniteSets

VARIABLES
    params,             \* the sidebar widgets' values
    pc,                 \* position in the script
    system_params,      \* calculate_system()'s result
    generation,         \* simulate_energy_flow: the 24-hour lists
    consumption,
    battery_soc,
    grid_import,
    grid_export,
    battery_charge,
    battery_discharge,
    current_soc,
    h,                  \* the dispatch loop's next hour
    economics,          \* economic_analysis()'s result
    backup_capacity,    \* calculate_backup_capacity()'s result
    prev,               \* what the previous run of the script displayed
    runs                \* how many times the script has run

vars == <<params, pc, system_params, generation, consumption, battery_soc,
          grid_import, grid_export, battery_charge, battery_discharge,
          current_soc, h, economics, backup_capacity, prev, runs>>

\* ---------------------------------------------------------------------------
\* Unbounded naturals: little-endian sequences of limbs in 0..Base-1 whose
\* last limb is nonzero (zero is the empty sequence).
\* ---------------------------------------------------------------------------
Base == 2^15

RECURSIVE BTrim(_)
BTrim(a) ==
    IF a = <<>> THEN a
    ELSE IF a[Len(a)] = 0 THEN BTrim(SubSeq(a, 1, Len(a) - 1)) ELSE a

RECURSIVE BFromInt(_)
BFromInt(n) == IF n = 0 THEN <<>> ELSE <<n % Base>> \o BFromInt(n \div Base)

RECURSIVE BToInt(_)
BToInt(a) == IF a = <<>> THEN 0 ELSE a[1] + Base * BToInt(Tail(a))

RECURSIVE BAddC(_, _, _)
BAddC(a, b, c) ==
    IF a = <<>> /\ b = <<>> THEN (IF c = 0 THEN <<>> ELSE <<c>>)
    ELSE LET x == IF a = <<>> THEN 0 ELSE a[1]
             y == IF b = <<>> THEN 0 ELSE b[1]
             s == x + y + c
         IN  <<s % Base>> \o BAddC(IF a = <<>> THEN a ELSE Tail(a),
                                   IF b = <<>> THEN b ELSE Tail(b), s \div Base)

BAdd(a, b) == BAddC(a, b, 0)

RECURSIVE BSubC(_, _, _)
BSubC(a, b, c) ==
    IF a = <<>> THEN <<>>
    ELSE LET y == IF b = <<>> THEN 0 ELSE b[1]
             d == a[1] - y - c
         IN  <<d % Base>> \o BSubC(Tail(a), IF b = <<>> THEN b ELSE Tail(b),
                                   IF d < 0 THEN 1 ELSE 0)

\* a - b, for a >= b
BSub(a, b) == BTrim(BSubC(a, b, 0))

RECURSIVE BCmpAt(_, _, _)
BCmpAt(a, b, i) ==
    IF i = 0 THEN 0
    ELSE IF a[i] > b[i] THEN 1
    ELSE IF a[i] < b[i] THEN -1
    ELSE BCmpAt(a, b, i - 1)

\* -1, 0 or 1 as a < b, a = b or a > b
BCmp(a, b) ==
    IF Len(a) > Len(b) THEN 1
    ELSE IF Len(a) < Len(b) THEN -1
    ELSE BCmpAt(a, b, Len(a))

RECURSIVE BMulSmallC(_, _, _)
\* a * k + c, for 0 <= k < Base and 0 <= c < Base
BMulSmallC(a, k, c) ==
    IF a = <<>> THEN (IF c = 0 THEN <<>> ELSE <<c>>)
    ELSE LET p == a[1] * k + c
         IN  <<p % Base>> \o BMulSmallC(Tail(a), k, p \div Base)

BMulSmall(a, k) == BTrim(BMulSmallC(a, k, 0))

RECURSIVE BMul(_, _)
BMul(a, b) ==
    IF a = <<>> \/ b = <<>> THEN <<>>
    ELSE LET rest == BMul(a, Tail(b))
         IN  BAdd(BMulSmall(a, b[1]), IF rest = <<>> THEN rest ELSE <<0>> \o rest)

RECURSIVE BZeros(_)
BZeros(n) == IF n = 0 THEN <<>> ELSE <<0>> \o BZeros(n - 1)

\* a * 2^n
BShl(a, n) ==
    IF a = <<>> THEN a ELSE BZeros(n \div 15) \o BMulSmall(a, 2^(n % 15))

RECURSIVE BDivSmallAt(_, _, _, _)
\* the limbs i..1 of (r * Base^i + a[1..i]) \div k, most significant first
BDivSmallAt(a, k, i, r) ==
    IF i = 0 THEN <<>>
    ELSE LET x == r * Base + a[i]
         IN  BDivSmallAt(a, k, i - 1, x % k) \o <<x \div k>>

\* a \div 2^n
BShr(a, n) ==
    LET drop == n \div 15
        rest == IF drop >= Len(a) THEN <<>> ELSE SubSeq(a, drop + 1, Len(a))
    IN  BTrim(BDivSmallAt(rest, 2^(n % 15), Len(rest), 0))

RECURSIVE IntBitLen(_)
IntBitLen(n) == IF n = 0 THEN 0 ELSE 1 + IntBitLen(n \div 2)

BBitLen(a) == IF a = <<>> THEN 0 ELSE 15 * (Len(a) - 1) + IntBitLen(a[Len(a)])

\* ---------------------------------------------------------------------------
\* IEEE 754 binary64 values: s * m * 2^e with s in {-1, 0, 1} and, unless the
\* value is zero, 2^52 <= m < 2^53.  Every operation rounds to nearest, ties
\* to even.  Exponent range and signed zeros are not modelled.
\* ---------------------------------------------------------------------------
MantBits == 52 + 1

FZero == [s |-> 0, m |-> <<>>, e |-> 0]

\* float('inf'): reached only as the payback sentinel and by a division by zero
FInf == [s |-> 1, m |-> <<>>, e |-> 1]

\* q, or q + 1 when the part cut off (c its comparison with one half) is
\* more than half, or half with q odd
HalfEvenUp(q, c) ==
    IF c > 0 \/ (c = 0 /\ q # <<>> /\ q[1] % 2 = 1) THEN BAdd(q, <<1>>) ELSE q

\* for q = n \div 2^sh
HalfEvenOf(n, sh, q) ==
    HalfEvenUp(q, BCmp(BSub(n, BShl(q, sh)), BShl(<<1>>, sh - 1)))

\* the natural nearest to n / 2^sh, ties to even, for sh > 0
HalfEven(n, sh) == HalfEvenOf(n, sh, BShr(n, sh))

\* s * q * 2^e for q of MantBits bits, or of one more after a carry
Renormalised(s, q, e) ==
    IF BBitLen(q) > MantBits
    THEN [s |-> s, m |-> BShr(q, 1), e |-> e + 1]
    ELSE [s |-> s, m |-> q, e |-> e]

\* for L the number of bits of n
RoundBits(s, n, e, L) ==
    IF L <= MantBits
    THEN [s |-> s, m |-> BShl(n, MantBits - L), e |-> e - (MantBits - L)]
    ELSE Renormalised(s, HalfEven(n, L - MantBits), e + (L - MantBits))

\* the double nearest to s * n * 2^e, for a natural n > 0
RoundToF(s, n, e) == RoundBits(s, n, e, BBitLen(n))

\* s * a, for a natural a > 0 of at most MantBits bits
ExactF(s, a) ==
    [s |-> s, m |-> BShl(a, MantBits - BBitLen(a)), e |-> BBitLen(a) - MantBits]

\* float(n), for |n| < 2^31
FromInt(n) ==
    IF n = 0 THEN FZero
    ELSE IF n > 0 THEN ExactF(1, BFromInt(n)) ELSE ExactF(-1, BFromInt(-n))

FNeg(a) == [a EXCEPT !.s = -a.s]

FMul(a, b) ==
    IF a.s = 0 \/ b.s = 0 THEN FZero
    ELSE RoundToF(a.s * b.s, BMul(a.m, b.m), a.e + b.e)

\* the digit d0 or d0 + 1 appended to the quotient q, and what is left of r0
FDivTake(b, q, d0, r0) ==
    IF BCmp(r0, b) >= 0
    THEN <<BMulSmallC(q, 256, d0 + 1), BSub(r0, b)>>
    ELSE <<BMulSmallC(q, 256, d0), r0>>

\* the digit estimated from the leading bits of r8 (bt is the leading 22 bits
\* of b) is the digit or one less
FDivEstimate(b, bt, q, r8) ==
    FDivTake(b, q, BToInt(BShr(r8, MantBits - 22)) \div (bt + 1),
             BSub(r8, BMulSmall(b, BToInt(BShr(r8, MantBits - 22)) \div (bt + 1))))

\* one more base-256 digit of r / b appended to q: <<quotient, remainder>>
FDivDigit(b, bt, q, r) == FDivEstimate(b, bt, q, BMulSmall(r, 256))

RECURSIVE FDivStep(_, _, _, _)
\* i more digits (the test of qr makes it a value before the next digit is
\* taken)
FDivStep(b, bt, i, qr) ==
    IF i = 0 \/ qr = <<>> THEN qr
    ELSE FDivStep(b, bt, i - 1, FDivDigit(b, bt, qr[1], qr[2]))

\* the quotient's 56 bits and a sticky bit for the remainder, rounded
FDivRound(s, qr, e) ==
    RoundToF(s, BMulSmallC(qr[1], 2, IF qr[2] = <<>> THEN 0 ELSE 1), e)

FDiv(a, b) ==
    IF a.s = 0 THEN FZero
    ELSE IF b.s = 0 THEN FInf
    ELSE FDivRound(a.s * b.s,
                   FDivStep(b.m, BToInt(BShr(b.m, MantBits - 22)), 7, <<<<>>, a.m>>),
                   a.e - b.e - 57)

\* -1, 0 or 1 as |a| < |b|, |a| = |b| or |a| > |b|
FCmpAbs(a, b) ==
    IF a.s = 0 /\ b.s = 0 THEN 0
    ELSE IF a.s = 0 THEN -1
    ELSE IF b.s = 0 THEN 1
    ELSE IF a.e > b.e THEN 1
    ELSE IF a.e < b.e THEN -1
    ELSE BCmp(a.m, b.m)

FCmp(a, b) ==
    IF a.s # b.s THEN (IF a.s > b.s THEN 1 ELSE -1)
    ELSE a.s * FCmpAbs(a, b)

FLt(a, b) == FCmp(a, b) < 0
FLe(a, b) == FCmp(a, b) <= 0
FGt(a, b) == FCmp(a, b) > 0
FGe(a, b) == FCmp(a, b) >= 0

\* sa * na * 2^e + sb * nb * 2^e for opposite signs, c comparing na with nb
XAddOpposite(sa, na, sb, nb, e, c) ==
    IF c = 0 THEN FZero
    ELSE IF c > 0 THEN [s |-> sa, m |-> BSub(na, nb), e |-> e]
    ELSE [s |-> sb, m |-> BSub(nb, na), e |-> e]

\* sa * na * 2^e + sb * nb * 2^e
XAddAligned(sa, na, sb, nb, e) ==
    IF sa = sb THEN [s |-> sa, m |-> BAdd(na, nb), e |-> e]
    ELSE XAddOpposite(sa, na, sb, nb, e, BCmp(na, nb))

\* a and b brought to the exponent e, the smaller of theirs
XAddAt(a, b, e) == XAddAligned(a.s, BShl(a.m, a.e - e), b.s, BShl(b.m, b.e - e), e)

\* the exact sum of two values s * m * 2^e (m of any length), not rounded
XAdd(a, b) ==
    IF a.s = 0 THEN b
    ELSE IF b.s = 0 THEN a
    ELSE XAddAt(a, b, IF a.e < b.e THEN a.e ELSE b.e)

\* a and b brought to the exponent e, the smaller of theirs
XCmpAbsAt(a, b, e) == BCmp(BShl(a.m, a.e - e), BShl(b.m, b.e - e))

\* -1, 0 or 1 as |a| < |b|, |a| = |b| or |a| > |b|, for exact values
XCmpAbs(a, b) ==
    IF a.s = 0 /\ b.s = 0 THEN 0
    ELSE IF a.s = 0 THEN -1
    ELSE IF b.s = 0 THEN 1
    ELSE XCmpAbsAt(a, b, IF a.e < b.e THEN a.e ELSE b.e)

\* the double nearest to an exact value
RoundX(x) == IF x.s = 0 THEN FZero ELSE RoundToF(x.s, x.m, x.e)

FAdd(a, b) == RoundX(XAdd(a, b))

FSub(a, b) == FAdd(a, FNeg(b))

\* Python's min(a, b): b only when b < a
FMin(a, b) == IF FLt(b, a) THEN b ELSE a

\* the integer nearest to |a| * 10^k (ties to even), as a natural; the exact
\* value is a.m * 10^k * 2^a.e
RoundScaled(a, tenk) ==
    IF a.s = 0 THEN <<>>
    ELSE IF a.e >= 0 THEN BShl(BMulSmall(a.m, tenk), a.e)
    ELSE HalfEven(BMulSmall(a.m, tenk), -a.e)

\* s * n / tenk, rounded
FRoundOf(s, n, tenk) ==
    IF n = <<>> THEN FZero ELSE FDiv(RoundToF(s, n, 0), FromInt(tenk))

\* round(a, ndigits) with 10^ndigits = tenk: the double nearest to the decimal
\* that is a correctly rounded to ndigits places
FRound(a, tenk) == FRoundOf(a.s, RoundScaled(a, tenk), tenk)

\* round(a): an int
RoundInt(a) == a.s * BToInt(RoundScaled(a, 1))

\* numpy's round(a, ndigits) of a float64 scalar, with 10^ndigits = tenk:
\* rint(a * tenk) / tenk, each step rounded
NpRound(a, tenk) ==
    FDiv(FromInt(RoundInt(FMul(a, FromInt(tenk)))), FromInt(tenk))

\* ---------------------------------------------------------------------------
\* The sidebar.  Integer widgets hold their integer; a float widget holds its
\* decimal in tenths (sunshine_hours, battery_capacity, inverter_power) or
\* hundredths (the three prices), and the program reads the nearest double.
\* ---------------------------------------------------------------------------
F10   == FromInt(10)
F12   == FromInt(12)
F24   == FromInt(24)
F30   == FromInt(30)
F100  == FromInt(100)
F365  == FromInt(365)
F1000 == FromInt(1000)
FOne  == FromInt(1)
FHalf == FDiv(FromInt(5), F10)
F1p8  == FDiv(FromInt(18), F10)

\* the double nearest to the decimal n / d
Dec(n, d) == FDiv(FromInt(n), FromInt(d))

\* PV_COMPONENTS' first entry, the selectbox's default
PV_COMPONENTS == [efficiency |-> Dec(213, 10), price_per_w |-> Dec(25, 10)]

DefaultParams ==
    [monthly_usage      |-> 500,
     peak_usage         |-> 60,
     backup_hours       |-> 4,
     sunshine_hours     |-> 45,
     system_loss        |-> 15,
     pv_power_per_panel |-> 450,
     pv_count           |-> 20,
     battery_capacity   |-> 100,
     battery_efficiency |-> 95,
     dod_limit          |-> 90,
     inverter_power     |-> 50,
     inverter_price     |-> 10000,
     electricity_price  |-> 60,
     subsidy            |-> 30,
     feed_in_tariff     |-> 20]

\* the values the user sets each varied widget to, within the widget's range
BatteryCapacityValues   == {10, 15, 100}
BatteryEfficiencyValues == {80, 95}
DodLimitValues          == {57, 90}
PeakUsageValues         == {30, 60}
BackupHoursValues       == {4, 8}

\* the parameter sets one widget change (or a rerun without one) leads to
WidgetChanges(p) ==
    {p}
    \cup {[p EXCEPT !.battery_capacity = v]   : v \in BatteryCapacityValues}
    \cup {[p EXCEPT !.battery_efficiency = v] : v \in BatteryEfficiencyValues}
    \cup {[p EXCEPT !.dod_limit = v]          : v \in DodLimitValues}
    \cup {[p EXCEPT !.peak_usage = v]         : v \in PeakUsageValues}
    \cup {[p EXCEPT !.backup_hours = v]       : v \in BackupHoursValues}

\* ---------------------------------------------------------------------------
\* calculate_system
\* ---------------------------------------------------------------------------
pv_power_kw(p) == FDiv(FromInt(p.pv_power_per_panel), F1000)

UsableCapacity(p) ==
    FMul(Dec(p.battery_capacity, 10), FDiv(FromInt(p.dod_limit), F100))

DailyGeneration(p) ==
    FMul(FMul(FMul(FMul(pv_power_kw(p), FromInt(p.pv_count)),
                   Dec(p.sunshine_hours, 10)),
              FDiv(PV_COMPONENTS.efficiency, F100)),
         FSub(FOne, FDiv(FromInt(p.system_loss), F100)))

\* calculate_system returning the usable capacity as computed, not rounded
calculate_system_unrounded(p) ==
    [pv_total_power   |-> FRound(FMul(pv_power_kw(p), FromInt(p.pv_count)), 100),
     daily_generation |-> FRound(DailyGeneration(p), 100),
     battery_capacity |-> FRound(Dec(p.battery_capacity, 10), 100),
     usable_capacity  |-> UsableCapacity(p),
     inverter_power   |-> Dec(p.inverter_power, 10)]

calculate_system(p) ==
    [pv_total_power   |-> FRound(FMul(pv_power_kw(p), FromInt(p.pv_count)), 100),
     daily_generation |-> FRound(DailyGeneration(p), 100),
     battery_capacity |-> FRound(Dec(p.battery_capacity, 10), 100),
     usable_capacity  |-> FRound(UsableCapacity(p), 100),
     inverter_power   |-> Dec(p.inverter_power, 10)]

\* ---------------------------------------------------------------------------
\* simulate_energy_flow
\* ---------------------------------------------------------------------------
hours == 24

\* np.sin(normalized_hour * np.pi) for normalized_hour = (hr - 6) / 12 and
\* hr = 6 .. 18, as binary64 evaluates it (sin(pi) is not zero)
NpSin(hr) ==
    << [s |-> 0, m |-> <<>>, e |-> 0],
       [s |-> 1, m |-> <<1680, 806, 16887, 132>>, e |-> -54],
       [s |-> 1, m |-> <<32767, 32767, 32767, 255>>, e |-> -54],
       [s |-> 1, m |-> <<15308, 19710, 633, 181>>, e |-> -53],
       [s |-> 1, m |-> <<19626, 20656, 23019, 221>>, e |-> -53],
       [s |-> 1, m |-> <<16149, 3729, 9077, 247>>, e |-> -53],
       [s |-> 1, m |-> <<0, 0, 0, 128>>, e |-> -52],
       [s |-> 1, m |-> <<16149, 3729, 9077, 247>>, e |-> -53],
       [s |-> 1, m |-> <<19627, 20656, 23019, 221>>, e |-> -53],
       [s |-> 1, m |-> <<15309, 19710, 633, 181>>, e |-> -53],
       [s |-> 1, m |-> <<32767, 32767, 32767, 255>>, e |-> -54],
       [s |-> 1, m |-> <<1685, 806, 16887, 132>>, e |-> -54],
       [s |-> 1, m |-> <<23559, 26152, 6296, 141>>, e |-> -105] >>[hr - 5]

daily_usage(p) == FDiv(FromInt(p.monthly_usage), F30)

peak_usage_kwh(p) == FDiv(FMul(daily_usage(p), FromInt(p.peak_usage)), F100)

\* generation[hr]
Generation(hr, sp) ==
    IF 6 <= hr /\ hr < 19
    THEN FMul(FMul(sp.daily_generation, NpSin(hr)), FHalf)
    ELSE FZero

\* Consumption with the peak hours' load taken from the peak-usage share
ConsumptionByPeakUsage(hr, p) ==
    LET base_load == FDiv(daily_usage(p), FromInt(hours)) IN
    IF (7 <= hr /\ hr <= 10) \/ (18 <= hr /\ hr <= 22)
    THEN FDiv(peak_usage_kwh(p), FromInt(9))
    ELSE base_load

\* consumption[hr]
Consumption(hr, p) ==
    LET base_load == FDiv(daily_usage(p), FromInt(hours)) IN
    IF (7 <= hr /\ hr <= 10) \/ (18 <= hr /\ hr <= 22)
    THEN FMul(base_load, F1p8)
    ELSE base_load

\* DispatchHour with generation and consumption served separately instead of
\* netted: the battery takes from the generation and gives to the load
DispatchHourUnnetted(g, c, soc, usable_capacity, battery_efficiency) ==
    LET eff           == FDiv(FromInt(battery_efficiency), F100)
        max_charge    == FMin(g, FDiv(FSub(usable_capacity, soc), eff))
        charged       == FAdd(soc, FMul(max_charge, eff))
        max_discharge == FMin(c, FMul(charged, eff))
        surplus       == FSub(g, max_charge)
        deficit       == FSub(c, max_discharge)
    IN  [soc       |-> FSub(charged, FDiv(max_discharge, eff)),
         charge    |-> max_charge,
         discharge |-> max_discharge,
         import    |-> IF FGt(deficit, FZero) THEN deficit ELSE FZero,
         export    |-> IF FGt(surplus, FZero) THEN surplus ELSE FZero]

\* DispatchHour exporting the whole surplus, the charge not taken off it
DispatchHourExportsNet(g, c, soc, usable_capacity, battery_efficiency) ==
    LET net_generation == FSub(g, c)
        eff            == FDiv(FromInt(battery_efficiency), F100)
    IN  IF FGt(net_generation, FZero)
        THEN LET max_charge == FMin(net_generation,
                                    FDiv(FSub(usable_capacity, soc), eff))
             IN  [soc       |-> FAdd(soc, FMul(max_charge, eff)),
                  charge    |-> max_charge,
                  discharge |-> FZero,
                  import    |-> FZero,
                  export    |-> net_generation]
        ELSE LET deficit           == FNeg(net_generation)
                 max_discharge     == FMin(deficit, FMul(soc, eff))
                 remaining_deficit == FSub(deficit, max_discharge)
             IN  [soc       |-> FSub(soc, FDiv(max_discharge, eff)),
                  charge    |-> FZero,
                  discharge |-> max_discharge,
                  import    |-> IF FGt(remaining_deficit, FZero)
                                THEN remaining_deficit ELSE FZero,
                  export    |-> FZero]

\* one iteration of the dispatch loop: the hour's ending state of charge and
\* its four flows, from the hour's generation g and consumption c
DispatchHour(g, c, soc, usable_capacity, battery_efficiency) ==
    LET net_generation == FSub(g, c)
        eff            == FDiv(FromInt(battery_efficiency), F100)
    IN  IF FGt(net_generation, FZero)
        THEN LET max_charge == FMin(net_generation,
                                    FDiv(FSub(usable_capacity, soc), eff))
                 remaining  == FSub(net_generation, max_charge)
             IN  [soc       |-> FAdd(soc, FMul(max_charge, eff)),
                  charge    |-> max_charge,
                  discharge |-> FZero,
                  import    |-> FZero,
                  export    |-> IF FGt(remaining, FZero) THEN remaining ELSE FZero]
        ELSE LET deficit           == FNeg(net_generation)
                 max_discharge     == FMin(deficit, FMul(soc, eff))
                 remaining_deficit == FSub(deficit, max_discharge)
             IN  [soc       |-> FSub(soc, FDiv(max_discharge, eff)),
                  charge    |-> FZero,
                  discharge |-> max_discharge,
                  import    |-> IF FGt(remaining_deficit, FZero)
                                THEN remaining_deficit ELSE FZero,
                  export    |-> FZero]

\* InitialSoc missing: the loop goes on from wherever current_soc was left
StaleSoc == current_soc

\* current_soc before hour 0
InitialSoc == FZero

ZeroList == [i \in 1..hours |-> FZero]

\* ---------------------------------------------------------------------------
\* economic_analysis
\* ---------------------------------------------------------------------------
RECURSIVE SumFrom(_, _, _)
\* sum(list): left to right from 0, each partial sum rounded (the test of
\* acc makes each partial sum a value before the next is taken)
SumFrom(list, i, acc) ==
    IF acc.s \in {-1, 0, 1} /\ i <= Len(list)
    THEN SumFrom(list, i + 1, FAdd(acc, list[i]))
    ELSE acc

Sum(list) == SumFrom(list, 1, FZero)

TotalInvestment(p) ==
    LET pv_investment      == FMul(FromInt(p.pv_count * p.pv_power_per_panel),
                                   PV_COMPONENTS.price_per_w)
        battery_investment == FMul(Dec(p.battery_capacity, 10), F1000)
    IN  FAdd(FAdd(pv_investment, battery_investment), FromInt(p.inverter_price))

AnnualGeneration(sp) == FMul(sp.daily_generation, F365)

AnnualConsumption(p) == p.monthly_usage * 12

\* sum(energy_flow[...]) * 365 / 24
Annual(list) == FDiv(FMul(Sum(list), F365), F24)

\* SelfConsumption with the sign of the import slipped
SelfConsumptionAdded(annual_consumption, annual_grid_import) ==
    FAdd(FromInt(annual_consumption), annual_grid_import)

\* annual_consumption - annual_grid_import
SelfConsumption(annual_consumption, annual_grid_import) ==
    FSub(FromInt(annual_consumption), annual_grid_import)

\* from self_use = annual_consumption - annual_grid_import, the two other
\* annual energies and the three prices
TotalAnnualBenefit(self_use, grid_export_kwh, generation_kwh, price, tariff, subsidy) ==
    LET saving_from_self_use == FMul(self_use, price)
        income_from_export   == FMul(grid_export_kwh, tariff)
        subsidy_income       == FMul(generation_kwh, subsidy)
    IN  FAdd(FAdd(saving_from_self_use, income_from_export), subsidy_income)

PaybackYears(total_investment, total_annual_benefit) ==
    IF FGt(total_annual_benefit, FZero)
    THEN FDiv(total_investment, total_annual_benefit)
    ELSE FInf

\* the text the result carries in place of a number for an unbounded payback
\* (">50" and the word for years)
Over50Years == [text |-> ">50 years"]

\* PaybackReport without its rounding
PaybackReportUnrounded(payback_years) ==
    IF payback_years # FInf THEN payback_years ELSE Over50Years

\* the payback entry of the result: payback_years is a numpy float64 here
PaybackReport(payback_years) ==
    IF payback_years # FInf THEN NpRound(payback_years, 10) ELSE Over50Years

economic_analysis(p, sp, annual_grid_import, annual_grid_export) ==
    LET pv_investment      == FMul(FromInt(p.pv_count * p.pv_power_per_panel),
                                   PV_COMPONENTS.price_per_w)
        battery_investment == FMul(Dec(p.battery_capacity, 10), F1000)
        self_use           == SelfConsumption(AnnualConsumption(p), annual_grid_import)
        benefit            == TotalAnnualBenefit(self_use, annual_grid_export,
                                  AnnualGeneration(sp),
                                  Dec(p.electricity_price, 100),
                                  Dec(p.feed_in_tariff, 100),
                                  Dec(p.subsidy, 100))
    IN  [pv_investment           |-> RoundInt(pv_investment),
         battery_investment      |-> RoundInt(battery_investment),
         inverter_investment     |-> p.inverter_price,
         total_investment        |-> RoundInt(TotalInvestment(p)),
         annual_generation       |-> RoundInt(AnnualGeneration(sp)),
         annual_self_consumption |-> RoundInt(self_use),
         annual_grid_import      |-> RoundInt(annual_grid_import),
         annual_grid_export      |-> RoundInt(annual_grid_export),
         annual_benefit          |-> RoundInt(benefit),
         payback                 |-> PaybackReport(PaybackYears(TotalInvestment(p), benefit))]

\* ---------------------------------------------------------------------------
\* calculate_backup_capacity
\* ---------------------------------------------------------------------------
calculate_backup_capacity(p, sp) ==
    FDiv(sp.usable_capacity, FDiv(peak_usage_kwh(p), FromInt(p.backup_hours)))

\* ---------------------------------------------------------------------------
\* The script
\* ---------------------------------------------------------------------------
MaxRuns == 3

NoResult == [set |-> FALSE]

energy_flow ==
    [generation        |-> generation,
     consumption       |-> consumption,
     battery_soc       |-> battery_soc,
     grid_import       |-> grid_import,
     grid_export       |-> grid_export,
     battery_charge    |-> battery_charge,
     battery_discharge |-> battery_discharge]

\* the state before the script's first statement, the sidebar holding p
StartWith(p) ==
    /\ params = p
    /\ pc = "calculate_system"
    /\ system_params = NoResult
    /\ generation = ZeroList
    /\ consumption = ZeroList
    /\ battery_soc = ZeroList
    /\ grid_import = ZeroList
    /\ grid_export = ZeroList
    /\ battery_charge = ZeroList
    /\ battery_discharge = ZeroList
    /\ current_soc = FZero
    /\ h = 0
    /\ economics = NoResult
    /\ backup_capacity = FZero
    /\ prev = NoResult
    /\ runs = 1

Init == StartWith(DefaultParams)

\* system_params = calculate_system()
Sizing ==
    /\ pc = "calculate_system"
    /\ system_params' = calculate_system(params)
    /\ pc' = "simulate_energy_flow"
    /\ UNCHANGED <<params, generation, consumption, battery_soc, grid_import,
                   grid_export, battery_charge, battery_discharge, current_soc,
                   h, economics, backup_capacity, prev, runs>>

\* simulate_energy_flow up to its dispatch loop: the two curves, the zeroed
\* lists and the starting state of charge
SimulateStart ==
    /\ pc = "simulate_energy_flow"
    /\ generation' = [i \in 1..hours |-> Generation(i - 1, system_params)]
    /\ consumption' = [i \in 1..hours |-> Consumption(i - 1, params)]
    /\ battery_soc' = ZeroList
    /\ grid_import' = ZeroList
    /\ grid_export' = ZeroList
    /\ battery_charge' = ZeroList
    /\ battery_discharge' = ZeroList
    /\ current_soc' = InitialSoc
    /\ h' = 0
    /\ pc' = "dispatch"
    /\ UNCHANGED <<params, system_params, economics, backup_capacity, prev, runs>>

\* one iteration of the loop over the hours
Dispatch ==
    /\ pc = "dispatch"
    /\ h < hours
    /\ \E r \in {DispatchHour(generation[h + 1], consumption[h + 1], current_soc,
                                system_params.usable_capacity,
                                params.battery_efficiency)} :
           /\ current_soc' = r.soc
           /\ battery_soc' = [battery_soc EXCEPT ![h + 1] = r.soc]
           /\ battery_charge' = [battery_charge EXCEPT ![h + 1] = r.charge]
           /\ battery_discharge' = [battery_discharge EXCEPT ![h + 1] = r.discharge]
           /\ grid_import' = [grid_import EXCEPT ![h + 1] = r.import]
           /\ grid_export' = [grid_export EXCEPT ![h + 1] = r.export]
    /\ h' = h + 1
    /\ UNCHANGED <<params, pc, system_params, generation, consumption, economics,
                   backup_capacity, prev, runs>>

\* the loop ends and economics = economic_analysis(system_params, energy_flow)
Economics ==
    /\ pc = "dispatch"
    /\ h = hours
    /\ \E annual_grid_import \in {Annual(grid_import)},
          annual_grid_export \in {Annual(grid_export)} :
            economics' = economic_analysis(params, system_params,
                                           annual_grid_import, annual_grid_export)
    /\ pc' = "calculate_backup_capacity"
    /\ UNCHANGED <<params, system_params, generation, consumption, battery_soc,
                   grid_import, grid_export, battery_charge, battery_discharge,
                   current_soc, h, backup_capacity, prev, runs>>

\* backup_capacity = calculate_backup_capacity(system_params)
Backup ==
    /\ pc = "calculate_backup_capacity"
    /\ backup_capacity' = calculate_backup_capacity(params, system_params)
    /\ pc' = "done"
    /\ UNCHANGED <<params, system_params, generation, consumption, battery_soc,
                   grid_import, grid_export, battery_charge, battery_discharge,
                   current_soc, h, economics, prev, runs>>

\* the user changes a widget (or reruns): the script runs again from the top
Rerun ==
    /\ pc = "done"
    /\ runs < MaxRuns
    /\ \E p \in WidgetChanges(params) : params' = p
    /\ prev' = [set |-> TRUE, params |-> params, energy_flow |-> energy_flow,
                economics |-> economics]
    /\ runs' = runs + 1
    /\ pc' = "calculate_system"
    /\ UNCHANGED <<system_params, generation, consumption, battery_soc,
                   grid_import, grid_export, battery_charge, battery_discharge,
                   current_soc, h, economics, backup_capacity>>

Next == Sizing \/ SimulateStart \/ Dispatch \/ Economics \/ Backup \/ Rerun

Spec == Init /\ [][Next]_vars

\* ---------------------------------------------------------------------------
\* calculate_system over the whole range of its two battery sliders
\* ---------------------------------------------------------------------------
\* battery_capacity: 1.0 to 50.0 in steps of 0.5, in tenths
BatteryCapacityRange == {c \in 10..500 : c % 5 = 0}

\* dod_limit: 50 to 100
DodLimitRange == 50..100

InitSizing ==
    \E c \in BatteryCapacityRange, d \in DodLimitRange :
        StartWith([DefaultParams EXCEPT !.battery_capacity = c, !.dod_limit = d])

SpecSizing == InitSizing /\ [][Sizing]_vars

\* ---------------------------------------------------------------------------
\* One run of the script for each setting of the three prices, zero or the
\* default.  feed_in_tariff and subsidy reach 0.0 on their sliders;
\* electricity_price is bounded below by 0.3 on its own, so its zero is
\* economic_analysis read with a price the sidebar does not give.
\* ---------------------------------------------------------------------------
ElectricityPriceValues == {0, 60}
FeedInTariffValues     == {0, 20}
SubsidyValues          == {0, 30}

InitEconomics ==
    \E e \in ElectricityPriceValues, f \in FeedInTariffValues, s \in SubsidyValues :
        StartWith([DefaultParams EXCEPT !.electricity_price = e,
                                        !.feed_in_tariff = f,
                                        !.subsidy = s])

NextEconomics == Sizing \/ SimulateStart \/ Dispatch \/ Economics \/ Backup

SpecEconomics == InitEconomics /\ [][NextEconomics]_vars

\* ---------------------------------------------------------------------------
\* Properties
\* ---------------------------------------------------------------------------
\* the lists hold hours 0 .. h-1 of a simulation under the current
\* system_params
Simulated == pc \in {"dispatch", "calculate_backup_capacity", "done"}

\* C1: at every simulated hour the recorded state of charge lies in
\* [0, usable_capacity]
C1_SocWithinUsable ==
    Simulated =>
        \A i \in 1..h :
            /\ FGe(battery_soc[i], FZero)
            /\ FLe(battery_soc[i], system_params.usable_capacity)

\* C2: at every hour grid_import * grid_export = 0, the two never both
\* positive
C2_ImportExportExclusive ==
    \A i \in 1..hours :
        /\ FMul(grid_import[i], grid_export[i]) = FZero
        /\ ~(FGt(grid_import[i], FZero) /\ FGt(grid_export[i], FZero))

\* a finished day with an exporting hour and an importing hour
C2_Witness ==
    /\ pc = "done"
    /\ \E i \in 1..hours : FGt(grid_export[i], FZero)
    /\ \E i \in 1..hours : FGt(grid_import[i], FZero)

\* this run's parameters are the previous run's but for battery_capacity
OnlyBatteryCapacityChanged ==
    /\ prev.set
    /\ params = [prev.params EXCEPT !.battery_capacity = params.battery_capacity]

\* C3: of two runs that differ only in battery_capacity, the one with the
\* larger capacity reports no less annual_self_consumption and no more
\* annual_grid_import
C3_MoreCapacityNeverWorse ==
    (pc = "done" /\ OnlyBatteryCapacityChanged) =>
        /\ prev.params.battery_capacity <= params.battery_capacity =>
              /\ economics.annual_self_consumption >= prev.economics.annual_self_consumption
              /\ economics.annual_grid_import <= prev.economics.annual_grid_import
        /\ params.battery_capacity <= prev.params.battery_capacity =>
              /\ prev.economics.annual_self_consumption >= economics.annual_self_consumption
              /\ prev.economics.annual_grid_import <= economics.annual_grid_import

\* a run after one with a smaller battery, importing strictly less
C3_Witness ==
    /\ pc = "done"
    /\ OnlyBatteryCapacityChanged
    /\ prev.params.battery_capacity < params.battery_capacity
    /\ economics.annual_grid_import < prev.economics.annual_grid_import
    /\ economics.annual_self_consumption > prev.economics.annual_self_consumption

\* battery_capacity * dod_limit / 100 in thousandths of a kWh, exactly
UsableThousandths == params.battery_capacity * params.dod_limit

\* C4 as stated: the usable capacity calculate_system returns is
\* battery_capacity * (dod_limit / 100) itself, and lies in
\* [0, battery_capacity]
C4_UsableCapacityExact ==
    pc = "simulate_energy_flow" =>
        /\ system_params.usable_capacity = UsableCapacity(params)
        /\ FGe(system_params.usable_capacity, FZero)
        /\ FLe(system_params.usable_capacity, system_params.battery_capacity)

\* C4 as amended: the usable capacity calculate_system returns is
\* battery_capacity * dod_limit / 100 rounded to two decimals (the nearest
\* hundredth, either neighbour when the product is midway), and lies in
\* [0, battery_capacity]
C4_UsableCapacityRounded ==
    pc = "simulate_energy_flow" =>
        /\ system_params.usable_capacity
              \in {Dec(UsableThousandths \div 10, 100),
                   Dec((UsableThousandths + 9) \div 10, 100)}
        /\ UsableThousandths % 10 # 5 =>
              system_params.usable_capacity
                  = Dec((UsableThousandths + 5) \div 10, 100)
        /\ FGe(system_params.usable_capacity, FZero)
        /\ FLe(system_params.usable_capacity, system_params.battery_capacity)

\* a sizing whose product has a third decimal, which the result has lost
C4_Witness ==
    /\ pc = "simulate_energy_flow"
    /\ UsableThousandths % 10 # 0
    /\ system_params.usable_capacity # UsableCapacity(params)
    /\ FLt(system_params.usable_capacity, system_params.battery_capacity)

\* total_annual_benefit as economic_analysis computes it from the finished
\* profile
Benefit ==
    TotalAnnualBenefit(SelfConsumption(AnnualConsumption(params), Annual(grid_import)),
                       Annual(grid_export), AnnualGeneration(system_params),
                       Dec(params.electricity_price, 100),
                       Dec(params.feed_in_tariff, 100),
                       Dec(params.subsidy, 100))

AllPricesZero ==
    /\ params.electricity_price = 0
    /\ params.feed_in_tariff = 0
    /\ params.subsidy = 0

\* p is a decimal k / 10 with |10 * ratio - k| <= 1/2 + 2^-31
TenthNearest(p, ratio) ==
    LET k    == RoundInt(FMul(p, F10))
        off  == XAdd([ratio EXCEPT !.m = BMulSmall(@, 10)], FromInt(-k))
        half == [s |-> 1, m |-> BFromInt(2^30 + 1), e |-> -31]
    IN  /\ p = Dec(k, 10)
        /\ XCmpAbs(off, half) <= 0

\* C5 as stated: the payback is the sentinel exactly when the total annual
\* benefit is <= 0 and total_investment / total_annual_benefit otherwise;
\* with the three prices zero the benefit is 0 and the payback the sentinel
C5_PaybackIsQuotient ==
    pc = "done" =>
        /\ economics.payback = Over50Years <=> FLe(Benefit, FZero)
        /\ FGt(Benefit, FZero) =>
              economics.payback = FDiv(TotalInvestment(params), Benefit)
        /\ AllPricesZero =>
              /\ Benefit = FZero
              /\ economics.annual_benefit = 0
              /\ economics.payback = Over50Years

\* C5 as amended: the payback is the sentinel exactly when the total annual
\* benefit is <= 0 and total_investment / total_annual_benefit rounded to
\* one decimal otherwise; with the three prices zero the benefit is 0 and
\* the payback the sentinel
C5_PaybackIsRoundedQuotient ==
    pc = "done" =>
        /\ economics.payback = Over50Years <=> FLe(Benefit, FZero)
        /\ FGt(Benefit, FZero) =>
              TenthNearest(economics.payback, FDiv(TotalInvestment(params), Benefit))
        /\ AllPricesZero =>
              /\ Benefit = FZero
              /\ economics.annual_benefit = 0
              /\ economics.payback = Over50Years

\* a finished run with the three prices zero, reporting the sentinel
C5_Witness ==
    /\ pc = "done"
    /\ AllPricesZero
    /\ economics.payback = Over50Years

\* this run's parameters are the previous run's but for peak_usage or
\* backup_hours, one of which has changed
OnlyBackupInputsChanged ==
    /\ prev.set
    /\ params # prev.params
    /\ params = [prev.params EXCEPT !.peak_usage = params.peak_usage,
                                    !.backup_hours = params.backup_hours]

\* C6: two runs whose parameters differ only in peak_usage or backup_hours
\* produce the same seven hourly sequences
C6_ProfileIgnoresBackupInputs ==
    (pc = "done" /\ OnlyBackupInputsChanged) => energy_flow = prev.energy_flow

\* a finished run after one with another peak_usage or backup_hours, the
\* day having stored, exported and imported energy
C6_Witness ==
    /\ pc = "done"
    /\ OnlyBackupInputsChanged
    /\ \E i \in 1..hours : FGt(battery_soc[i], FZero)
    /\ \E i \in 1..hours : FGt(grid_export[i], FZero)
    /\ \E i \in 1..hours : FGt(grid_import[i], FZero)

\* C7: at every simulated hour battery_charge, battery_discharge,
\* grid_import and grid_export are >= 0
C7_FlowsNonNegative ==
    \A i \in 1..h :
        /\ FGe(battery_charge[i], FZero)
        /\ FGe(battery_discharge[i], FZero)
        /\ FGe(grid_import[i], FZero)
        /\ FGe(grid_export[i], FZero)

\* C8: a run with the parameters of the run before it produces the same
\* seven hourly sequences, and every dispatch loop starts from a state of
\* charge of 0
C8_RunsIndependent ==
    /\ (pc = "done" /\ prev.set /\ params = prev.params) =>
           energy_flow = prev.energy_flow
    /\ (pc = "dispatch" /\ h = 0) => current_soc = FZero

\* a finished run with the parameters of the run before it, which had ended
\* its day with charge left in the battery
C8_Witness ==
    /\ pc = "done"
    /\ prev.set
    /\ params = prev.params
    /\ FGt(prev.energy_flow.battery_soc[hours], FZero)

\* hour i's generation + battery_discharge + grid_import - consumption
\* - battery_charge - grid_export, exactly
Imbalance(i) ==
    XAdd(XAdd(XAdd(generation[i], battery_discharge[i]), grid_import[i]),
         FNeg(XAdd(XAdd(consumption[i], battery_charge[i]), grid_export[i])))

\* 2^-51 times the larger of hour i's generation and consumption
BalanceTolerance(i) ==
    LET larger == IF FGt(generation[i], consumption[i])
                  THEN generation[i] ELSE consumption[i]
    IN  [larger EXCEPT !.e = @ - 51]

\* C9 as stated: at every simulated hour generation + battery_discharge
\* + grid_import = consumption + battery_charge + grid_export
C9_BalanceExact ==
    \A i \in 1..h : Imbalance(i) = FZero

\* C9 as amended: at every simulated hour the two sides differ by no more
\* than 2^-51 of the larger of the hour's generation and consumption
C9_BalanceWithinRounding ==
    \A i \in 1..h : XCmpAbs(Imbalance(i), BalanceTolerance(i)) <= 0

\* a finished day with an hour in surplus and an hour in deficit whose sides
\* differ
C9_Witness ==
    /\ pc = "done"
    /\ \E i \in 1..hours : FGt(battery_charge[i], FZero) /\ Imbalance(i) # FZero
    /\ \E i \in 1..hours : FGt(grid_import[i], FZero) /\ Imbalance(i) # FZero

\* C10: at every simulated hour, an hour that exports ends with the battery
\* full and an hour that imports ends with the battery empty
C10_BatteryFirst ==
    Simulated =>
        \A i \in 1..h :
            /\ FGt(grid_export[i], FZero) =>
                  battery_soc[i] = system_params.usable_capacity
            /\ FGt(grid_import[i], FZero) => battery_soc[i] = FZero
====
